---- MODULE Spec2Model ----
(***************************************************************************)
(* Operator node abstraction layer of the optimizer                         *)
(* (src/include/optimizer/operator_node_contents.h).                        *)
(*                                                                          *)
(* State: a bounded set of Operator handle objects, each holding its        *)
(* contents_ pointer, and a heap of BaseOperatorNodeContents instances.     *)
(* Every operation of the handle and of the instance interface is one       *)
(* action; the action records the call and its result in `last`.            *)
(***************************************************************************)
EXTENDS Integers, FiniteSets, Sequences, TLC

\* ---------------------------------------------------------------- bounds
MaxHandles == 3
MaxInst == 2
NumKinds == 2

Handles == 1..MaxHandles
InstIds == 1..MaxInst
Kinds == 1..NumKinds
\* the kind-specific fields of an instance, abstracted to two distinguishable
\* values
Data == {0, 1}

\* ------------------------------------------------------- pointer values
\* contents_ == nullptr
NULL == 0
\* the Operator object does not exist (not yet constructed, or destroyed)
Dead == 0 - 1

VARIABLES handles, heap, status, last

vars == <<handles, heap, status, last>>

NoInst == [alive |-> FALSE, kind |-> 0, data |-> 0]

\* ------------------------------------------------ type tags and metadata
\* OpType of a concrete kind: odd kinds are registered below the
\* logical/physical delimiter, even kinds above it.
Delimiter == 100

TypeTag(k) == IF k % 2 = 1 THEN (k + 1) \div 2 ELSE Delimiter + (k \div 2)

KindName(k) == IF k % 2 = 1 THEN <<"Logical", k>> ELSE <<"Physical", k>>

\* ------------------------------------- OperatorNodeContents<T> (adapter)
GetTypeUndefined(inst) == 0

\* OpType GetType() const override { return type; }
InstGetType(inst) == TypeTag(inst.kind)

\* std::string GetName() const override { return std::string(name); }
InstGetName(inst) == KindName(inst.kind)

InstIsLogical(inst) == InstGetType(inst) < Delimiter

InstIsPhysical(inst) == InstGetType(inst) > Delimiter

\* Accept: the visitor handler selected by the concrete type, invoked once.
InstAccept(inst) == inst.kind

\* BaseOperatorNodeContents *Copy() const = 0, as each concrete kind
\* implements it: a new instance of the same kind with the same fields.
InstCopy(inst) == [alive |-> TRUE, kind |-> inst.kind, data |-> inst.data]

\* --------------------------------------------- BaseOperatorNodeContents
HashMod == 65536

\* common::HashUtil::Hash(t): a deterministic function of the value alone.
HashUtilHash(t) == (t * 40503 + 2531) % HashMod

BaseHashWithData(inst) == HashUtilHash(InstGetType(inst) + inst.data)

\* virtual hash_t Hash() const { OpType t = GetType(); return HashUtil::Hash(t); }
BaseHash(inst) == HashUtilHash(InstGetType(inst))

BaseEqWithData(l, r) == InstGetType(l) = InstGetType(r) /\ l.data = r.data

\* virtual bool operator==(const BaseOperatorNodeContents &r)
BaseEq(l, r) == InstGetType(l) = InstGetType(r)

\* virtual bool operator!=(const BaseOperatorNodeContents &r)
BaseNe(l, r) == ~BaseEq(l, r)

\* std::hash<BaseOperatorNodeContents>::operator()
StdHash(inst) == BaseHash(inst)

\* ------------------------------------------------------ Operator (pure)
Live(h) == handles[h] # Dead

\* bool IsDefined() const
IsDefined(h) == handles[h] # NULL

Inst(h) == heap[handles[h]]

\* bool operator==(const Operator &rhs) const
OpEq(a, b) ==
    IF IsDefined(a) /\ IsDefined(b) THEN BaseEq(Inst(a), Inst(b))
    ELSE ~IsDefined(a) /\ ~IsDefined(b)

OpNeSame(a, b) == OpEq(a, b)

\* bool operator!=(const Operator &rhs) const { return !operator==(rhs); }
OpNe(a, b) == ~OpEq(a, b)

AsIgnoreType(h, J) == handles[h]

\* template <typename T> ManagedPointer<T> As() const
\* typeid(n) == typeid(T): identity of the dynamic type of *contents_
As(h, J) ==
    IF handles[h] # NULL
    THEN (IF heap[handles[h]].kind = J THEN handles[h] ELSE NULL)
    ELSE NULL

\* Forwarding operations of the handle; each fails when contents_ is null.
Forwarding == {"Accept", "GetName", "GetType", "Hash", "IsLogical", "IsPhysical"}

\* ------------------------------------------------------ call record
NoName == <<"", 0>>

Rec(op, a, b, pre) ==
    [op |-> op, a |-> a, b |-> b, pre |-> pre, err |-> FALSE, rb |-> FALSE,
     rn |-> 0, rs |-> NoName]

AliveCount == Cardinality({i \in InstIds : heap[i].alive})

\* operator new: the address of the next instance, while the heap has room
HasFree == \E i \in InstIds : ~heap[i].alive

NewId == CHOOSE i \in InstIds : ~heap[i].alive /\ \A j \in InstIds : ~heap[j].alive => i <= j

Init ==
    /\ handles = [h \in Handles |-> Dead]
    /\ heap = [i \in InstIds |-> NoInst]
    /\ status = "run"
    /\ last = Rec("Init", 0, 0, 0)

\* ------------------------------------------------ constructors, destructor
\* Operator() noexcept
DefaultCtor(h) ==
    /\ status = "run"
    /\ ~Live(h)
    /\ handles' = [handles EXCEPT ![h] = NULL]
    /\ last' = Rec("DefaultCtor", h, 0, 0)
    /\ UNCHANGED <<heap, status>>

\* explicit Operator(std::unique_ptr<BaseOperatorNodeContents> contents),
\* given a freshly built instance of kind k with fields d
OwningCtor(h, k, d) ==
    /\ status = "run"
    /\ ~Live(h)
    /\ HasFree
    /\ heap' = [heap EXCEPT ![NewId] = [alive |-> TRUE, kind |-> k, data |-> d]]
    /\ handles' = [handles EXCEPT ![h] = NewId]
    /\ last' = Rec("OwningCtor", h, 0, 0)
    /\ UNCHANGED status

MoveCtorKeepsSource(dst, src) ==
    /\ status = "run"
    /\ ~Live(dst)
    /\ Live(src)
    /\ handles' = [handles EXCEPT ![dst] = handles[src]]
    /\ last' = [Rec("MoveCtor", dst, src, handles[src]) EXCEPT !.rn = AliveCount]
    /\ UNCHANGED <<heap, status>>

\* Operator(Operator &&o) noexcept
MoveCtor(dst, src) ==
    /\ status = "run"
    /\ ~Live(dst)
    /\ Live(src)
    /\ handles' = [handles EXCEPT ![dst] = handles[src], ![src] = NULL]
    /\ last' = [Rec("MoveCtor", dst, src, handles[src]) EXCEPT !.rn = AliveCount]
    /\ UNCHANGED <<heap, status>>

CopyCtorShallow(dst, src) ==
    /\ status = "run"
    /\ ~Live(dst)
    /\ Live(src)
    /\ handles[src] # NULL
    /\ handles' = [handles EXCEPT ![dst] = handles[src]]
    /\ last' = Rec("CopyCtor", dst, src, handles[src])
    /\ UNCHANGED <<heap, status>>

\* Operator(const Operator &op) : contents_(op.contents_->Copy()) {}
\* op.contents_ holds an instance: the new handle owns the instance Copy() built.
CopyCtorDefined(dst, src) ==
    /\ status = "run"
    /\ ~Live(dst)
    /\ Live(src)
    /\ handles[src] # NULL
    /\ HasFree
    /\ heap' = [heap EXCEPT ![NewId] = InstCopy(heap[handles[src]])]
    /\ handles' = [handles EXCEPT ![dst] = NewId]
    /\ last' = Rec("CopyCtor", dst, src, handles[src])
    /\ UNCHANGED status

\* Operator(const Operator &op) with op.contents_ == nullptr: the virtual
\* call Copy() is made through a null pointer; the process is killed at the
\* access and the new handle is never constructed.
CopyCtorNullTrap(dst, src) ==
    /\ status = "run"
    /\ ~Live(dst)
    /\ Live(src)
    /\ handles[src] = NULL
    /\ status' = "crash"
    /\ last' = [Rec("CopyCtor", dst, src, NULL) EXCEPT !.err = TRUE]
    /\ UNCHANGED <<handles, heap>>

CopyCtor(dst, src) ==
    \/ CopyCtorDefined(dst, src)
    \/ CopyCtorNullTrap(dst, src)

\* ~Operator(): std::unique_ptr deletes the owned instance, if any
Destroy(h) ==
    /\ status = "run"
    /\ Live(h)
    /\ handles' = [handles EXCEPT ![h] = Dead]
    /\ heap' = IF handles[h] = NULL THEN heap
               ELSE [heap EXCEPT ![handles[h]] = NoInst]
    /\ last' = [Rec("Destroy", h, 0, handles[h]) EXCEPT !.rn = AliveCount]
    /\ UNCHANGED status

\* ------------------------------------------------ operations of the handle
Undefined(op, h) == [Rec(op, h, 0, NULL) EXCEPT !.err = TRUE]

\* Accept, GetName, GetType, Hash, IsLogical, IsPhysical
Forward(op, h) ==
    IF ~IsDefined(h) THEN Undefined(op, h)
    ELSE LET r == Rec(op, h, 0, handles[h])
             c == Inst(h)
         IN CASE op = "Accept" -> [r EXCEPT !.rn = InstAccept(c)]
              [] op = "GetName" -> [r EXCEPT !.rs = InstGetName(c)]
              [] op = "GetType" -> [r EXCEPT !.rn = InstGetType(c)]
              [] op = "Hash" -> [r EXCEPT !.rn = BaseHash(c)]
              [] op = "IsLogical" -> [r EXCEPT !.rb = InstIsLogical(c)]
              [] op = "IsPhysical" -> [r EXCEPT !.rb = InstIsPhysical(c)]

CallForward(op, h) ==
    /\ status = "run"
    /\ Live(h)
    /\ last' = Forward(op, h)
    /\ UNCHANGED <<handles, heap, status>>

CallIsDefined(h) ==
    /\ status = "run"
    /\ Live(h)
    /\ last' = [Rec("IsDefined", h, 0, handles[h]) EXCEPT !.rb = IsDefined(h)]
    /\ UNCHANGED <<handles, heap, status>>

CallOpEq(a, b) ==
    /\ status = "run"
    /\ Live(a) /\ Live(b)
    /\ last' = [Rec("OpEq", a, b, handles[a]) EXCEPT !.rb = OpEq(a, b)]
    /\ UNCHANGED <<handles, heap, status>>

CallOpNe(a, b) ==
    /\ status = "run"
    /\ Live(a) /\ Live(b)
    /\ last' = [Rec("OpNe", a, b, handles[a]) EXCEPT !.rb = OpNe(a, b)]
    /\ UNCHANGED <<handles, heap, status>>

CallAsReleases(h, J) ==
    /\ status = "run"
    /\ Live(h)
    /\ last' = [Rec("As", h, J, handles[h]) EXCEPT !.rn = As(h, J)]
    /\ handles' = [handles EXCEPT ![h] = IF As(h, J) # NULL THEN NULL ELSE handles[h]]
    /\ UNCHANGED <<heap, status>>

CallAs(h, J) ==
    /\ status = "run"
    /\ Live(h)
    /\ last' = [Rec("As", h, J, handles[h]) EXCEPT !.rn = As(h, J)]
    /\ UNCHANGED <<handles, heap, status>>

\* ---------------------------------------------- operations of the instance
CallBaseEq(i, j) ==
    /\ status = "run"
    /\ heap[i].alive /\ heap[j].alive
    /\ last' = [Rec("BaseEq", i, j, 0) EXCEPT !.rb = BaseEq(heap[i], heap[j])]
    /\ UNCHANGED <<handles, heap, status>>

CallBaseNe(i, j) ==
    /\ status = "run"
    /\ heap[i].alive /\ heap[j].alive
    /\ last' = [Rec("BaseNe", i, j, 0) EXCEPT !.rb = BaseNe(heap[i], heap[j])]
    /\ UNCHANGED <<handles, heap, status>>

CallBaseHash(i) ==
    /\ status = "run"
    /\ heap[i].alive
    /\ last' = [Rec("BaseHash", i, 0, 0) EXCEPT !.rn = BaseHash(heap[i])]
    /\ UNCHANGED <<handles, heap, status>>

CallStdHash(i) ==
    /\ status = "run"
    /\ heap[i].alive
    /\ last' = [Rec("StdHash", i, 0, 0) EXCEPT !.rn = StdHash(heap[i])]
    /\ UNCHANGED <<handles, heap, status>>

\* ------------------------------------------------------ specifications
Life ==
    \/ \E h \in Handles : DefaultCtor(h)
    \/ \E h \in Handles, k \in Kinds, d \in Data : OwningCtor(h, k, d)
    \/ \E dst, src \in Handles : MoveCtor(dst, src)
    \/ \E dst, src \in Handles : CopyCtor(dst, src)
    \/ \E h \in Handles : Destroy(h)

ForwardCalls ==
    \/ \E op \in Forwarding, h \in Handles : CallForward(op, h)
    \/ \E h \in Handles : CallIsDefined(h)

CompareCalls ==
    \/ \E a, b \in Handles : CallOpEq(a, b)
    \/ \E a, b \in Handles : CallOpNe(a, b)

AsCalls == \E h \in Handles, J \in Kinds : CallAs(h, J)

InstanceCalls ==
    \/ \E i, j \in InstIds : CallBaseEq(i, j)
    \/ \E i, j \in InstIds : CallBaseNe(i, j)
    \/ \E i \in InstIds : CallBaseHash(i)
    \/ \E i \in InstIds : CallStdHash(i)

Next == Life \/ ForwardCalls \/ CompareCalls \/ AsCalls \/ InstanceCalls

\* every operation of the header
Spec == Init /\ [][Next]_vars

\* construction, move, copy and destruction of handles
SpecLife == Init /\ [][Life]_vars

NextForward == Life \/ ForwardCalls

SpecForward == Init /\ [][NextForward]_vars

NextCompare == Life \/ CompareCalls

SpecCompare == Init /\ [][NextCompare]_vars

NextAs == Life \/ AsCalls

SpecAs == Init /\ [][NextAs]_vars

NextInstance == Life \/ InstanceCalls

SpecInstance == Init /\ [][NextInstance]_vars

\* ------------------------------------------------------------ properties
Defined(h) == handles[h] \in InstIds

AllInst == [alive : {TRUE}, kind : Kinds, data : Data]

\* C1: copy-constructing h2 from a defined handle h yields a defined handle
\* owning a new instance, distinct from every other handle's, built by Copy()
\* from h's instance; h == h2 and their type tags agree; h keeps its own
\* instance unchanged; and no step that leaves a handle alone (such as the
\* destruction of h2) changes that handle's instance.
C1_CopyStep ==
    \A d, s \in Handles :
        (/\ last'.op = "CopyCtor" /\ last'.a = d /\ last'.b = s
         /\ handles[d] = Dead /\ Defined(s))
        => /\ status' = "run"
           /\ handles'[d] \in InstIds
           /\ heap'[handles'[d]].alive
           /\ ~heap[handles'[d]].alive
           /\ \A h \in Handles \ {d} : handles'[h] # handles'[d]
           /\ handles'[s] = handles[s]
           /\ heap'[handles[s]] = heap[handles[s]]
           /\ heap'[handles'[d]] = InstCopy(heap[handles[s]])
           /\ OpEq(s, d)' /\ OpEq(d, s)'
           /\ InstGetType(heap'[handles'[s]]) = InstGetType(heap'[handles'[d]])

C1_NoInterference ==
    \A h \in Handles :
        (Defined(h) /\ handles'[h] = handles[h])
        => heap'[handles[h]] = heap[handles[h]]

C1_CopyIndependence == [][C1_CopyStep /\ C1_NoInterference]_vars

C1_Witness ==
    /\ last.op = "CopyCtor" /\ last.pre \in InstIds /\ status = "run"
    /\ Defined(last.a) /\ handles[last.b] = last.pre
    /\ handles[last.a] # last.pre
    /\ heap[last.pre].data = 1

\* C2: no two live handles ever hold the same instance, and destroying a
\* handle destroys exactly the instance it owns.
C2_UniqueOwnership ==
    /\ \A h1, h2 \in Handles :
          (h1 # h2 /\ Defined(h1) /\ Defined(h2)) => handles[h1] # handles[h2]
    /\ last.op = "Destroy" =>
          /\ AliveCount = last.rn - (IF last.pre = NULL THEN 0 ELSE 1)
          /\ last.pre # NULL => ~heap[last.pre].alive

C2_Witness ==
    /\ last.op = "Destroy" /\ last.pre \in InstIds /\ last.rn = MaxInst
    /\ ~heap[last.pre].alive
    /\ \E h \in Handles : Defined(h) /\ heap[handles[h]].alive
    /\ \E h \in Handles : handles[h] = NULL

\* C6: after h2 is move-constructed from h, h2 is defined exactly when h was,
\* h is undefined, h2 holds the very pointer h held, and no instance was
\* created or destroyed.
C6_MoveSemantics ==
    last.op = "MoveCtor" =>
        /\ status = "run"
        /\ Live(last.a) /\ Live(last.b)
        /\ IsDefined(last.a) = (last.pre # NULL)
        /\ ~IsDefined(last.b)
        /\ handles[last.a] = last.pre
        /\ AliveCount = last.rn
        /\ last.pre # NULL => heap[last.pre].alive

C6_Witness ==
    /\ last.op = "MoveCtor" /\ last.pre \in InstIds
    /\ handles[last.a] = last.pre /\ handles[last.b] = NULL

\* C8: default construction, and move or copy construction from an undefined
\* handle, complete normally without touching a missing instance.
C8_UndefinedSourceIsInert ==
    (\/ last.op = "DefaultCtor"
     \/ (last.op \in {"MoveCtor", "CopyCtor"} /\ last.pre = NULL))
    => (status = "run" /\ ~last.err /\ Live(last.a))

\* C3: handles that compare equal hash equal; with the default Hash and
\* operator== equal instances hash equal for every pair of kinds and fields;
\* and std::hash of an instance returns that instance's Hash().
C3_HashEqConsistent ==
    /\ \A a, b \in Handles :
          (Defined(a) /\ Defined(b) /\ OpEq(a, b))
          => Forward("Hash", a).rn = Forward("Hash", b).rn
    /\ last.op = "StdHash" => last.rn = BaseHash(heap[last.a])
    /\ last.op = "BaseHash" =>
          \A y \in AllInst : BaseEq(heap[last.a], y) => last.rn = BaseHash(y)

C3_Witness ==
    /\ last.op = "StdHash"
    /\ \E a, b \in Handles :
          /\ a # b /\ Defined(a) /\ Defined(b) /\ OpEq(a, b)
          /\ Inst(a).data # Inst(b).data
          /\ handles[a] = last.a
          /\ last.rn = Forward("Hash", b).rn

\* C4: a default-constructed handle is undefined; a forwarding operation on
\* an undefined handle fails with the undefined-operator error, returns no
\* value and leaves the handle undefined; on a defined handle it returns
\* what the owned instance's kind returns.
C4_Expected(op, c, r) ==
    CASE op = "Accept" -> r.rn = c.kind
      [] op = "GetName" -> r.rs = KindName(c.kind)
      [] op = "GetType" -> r.rn = TypeTag(c.kind)
      [] op = "Hash" -> r.rn = HashUtilHash(TypeTag(c.kind))
      [] op = "IsLogical" -> r.rb = (TypeTag(c.kind) < Delimiter)
      [] op = "IsPhysical" -> r.rb = (TypeTag(c.kind) > Delimiter)

C4_ForwardOrFail ==
    /\ last.op = "DefaultCtor" => (Live(last.a) /\ ~IsDefined(last.a))
    /\ last.op = "IsDefined" => last.rb = (last.pre # NULL)
    /\ last.op \in Forwarding =>
          /\ status = "run"
          /\ handles[last.a] = last.pre
          /\ last.pre = NULL =>
                (last.err /\ last.rn = 0 /\ ~last.rb /\ last.rs = NoName)
          /\ last.pre # NULL =>
                (~last.err /\ C4_Expected(last.op, heap[last.pre], last))

C4_Witness ==
    /\ last.op = "GetType" /\ last.pre = NULL /\ last.err
    /\ \E h \in Handles : Defined(h) /\ Forward("GetType", h).rn > Delimiter

\* C5: As<J>() is present exactly when the handle is defined and its
\* instance's concrete kind is J, and then it is the owned instance; it is
\* absent otherwise, raises no error and leaves the handle as it was.
C5_DowncastSound ==
    last.op = "As" =>
        /\ status = "run" /\ ~last.err
        /\ handles[last.a] = last.pre
        /\ (last.rn # NULL) <=> (last.pre # NULL /\ heap[last.pre].kind = last.b)
        /\ last.rn # NULL => last.rn = last.pre

C5_Witness ==
    /\ last.op = "As" /\ last.rn = NULL
    /\ last.pre # NULL /\ heap[last.pre].kind # last.b
    /\ \E h \in Handles : handles[h] = NULL

\* C7: operator== is true on two undefined handles, false on an undefined
\* and a defined one in either order, and the left instance's equality on
\* two defined ones; operator!= is its negation.
C7_ExpectedEq(a, b) ==
    IF handles[a] = NULL /\ handles[b] = NULL THEN TRUE
    ELSE IF handles[a] = NULL \/ handles[b] = NULL THEN FALSE
    ELSE BaseEq(heap[handles[a]], heap[handles[b]])

C7_HandleEquality ==
    /\ last.op = "OpEq" => last.rb = C7_ExpectedEq(last.a, last.b)
    /\ last.op = "OpNe" => last.rb = ~C7_ExpectedEq(last.a, last.b)
    /\ last.op \in {"OpEq", "OpNe"} => (~last.err /\ status = "run")

C7_Witness ==
    /\ last.op = "OpNe" /\ last.rb
    /\ handles[last.a] = NULL /\ Defined(last.b)
    /\ \E h \in Handles : h # last.a /\ handles[h] = NULL

\* C9: a handle becomes defined only by owning construction, by copy
\* construction from a defined handle or by a move from a defined handle;
\* a defined handle becomes undefined only by being moved from; and the
\* accessors, comparisons and As change no handle and no instance.
PureOps == Forwarding \cup {"IsDefined", "OpEq", "OpNe", "As"}

C9_Step ==
    /\ \A h \in Handles :
          /\ handles'[h] \in {Dead, NULL} \cup InstIds
          /\ (~Defined(h) /\ Defined(h)') =>
                /\ last'.a = h
                /\ \/ last'.op = "OwningCtor"
                   \/ (last'.op \in {"CopyCtor", "MoveCtor"} /\ Defined(last'.b))
          /\ (Defined(h) /\ handles'[h] = NULL) =>
                (last'.op = "MoveCtor" /\ last'.b = h)
    /\ last'.op \in PureOps => (handles' = handles /\ heap' = heap)
    /\ \A i \in InstIds :
          (heap[i].alive /\ heap'[i].alive)
          => InstGetType(heap'[i]) = InstGetType(heap[i])

C9_StateMachine == [][C9_Step]_vars

C9_Witness ==
    /\ last.op = "Hash" /\ ~last.err /\ Defined(last.a)
    /\ \E h \in Handles : h # last.a /\ Defined(h)
    /\ \E h \in Handles : handles[h] = NULL

\* C10: the default operator== is true exactly when the type tags agree,
\* operator!= is its negation and Hash() depends on the tag alone, so
\* instances of one kind are equal and hash equal whatever their fields;
\* default equality is reflexive, symmetric and transitive.
C10_TagOnlyDefaults ==
    /\ last.op = "BaseEq" =>
          /\ last.rb = (TypeTag(heap[last.a].kind) = TypeTag(heap[last.b].kind))
          /\ heap[last.a].kind = heap[last.b].kind => last.rb
          /\ BaseEq(heap[last.a], heap[last.a])
          /\ last.rb = BaseEq(heap[last.b], heap[last.a])
          /\ \A z \in AllInst :
                (last.rb /\ BaseEq(heap[last.b], z)) => BaseEq(heap[last.a], z)
    /\ last.op = "BaseNe" =>
          last.rb = (TypeTag(heap[last.a].kind) # TypeTag(heap[last.b].kind))
    /\ last.op = "BaseHash" =>
          /\ last.rn = HashUtilHash(TypeTag(heap[last.a].kind))
          /\ \A y \in AllInst :
                y.kind = heap[last.a].kind => last.rn = BaseHash(y)

C10_Witness ==
    /\ last.op = "BaseEq" /\ last.rb /\ last.a # last.b
    /\ heap[last.a].data # heap[last.b].data

====
